---- MODULE Spec2Model ----
(***************************************************************************)
(* Model of utils/dataloader.py: the Dataloader's date-axis regularizer    *)
(* (fill_missing_dates_in_df_of_every_country) and gap interpolator        *)
(* (interpolate_columns), with the pandas operations they are built from   *)
(* (to_datetime, groupby, min/max, date_range, merge, concat, transform,   *)
(* Series.interpolate) modelled by what they compute.                      *)
(*                                                                         *)
(* A table is a sequence of rows; a row is a record with the columns       *)
(* country, variant (group keys), date, total (a numeric column) and       *)
(* notes (a non-numeric payload column).  Numeric cells are exact          *)
(* rationals or NaN; floating-point rounding is not modelled.              *)
(***************************************************************************)
EXTENDS Integers, Sequences, FiniteSets

\* ---------------------------------------------------------------- bounds
MaxRows == 2      \* rows of an input table that may hold any kind of row
MaxLen == 3       \* rows of an input table of well-formed rows
MaxDate == 4      \* calendar days 1..MaxDate
MaxPasses == 2    \* consecutive applications of interpolate_columns

\* ------------------------------------------------------------ cell values
NaT == 0                      \* the "unknown" date produced by errors='coerce'
NoNote == 0                   \* a null cell of the notes column
NullKey == "NaN"              \* a null cell of a group-key column
Dates == 1..MaxDate
Countries == {"France", "Germany"}
Variants == {"Delta"}
Observed == {10, 40}          \* non-null raw values of the numeric column

NaN == [null |-> TRUE, num |-> 0, den |-> 1]
Num(n) == [null |-> FALSE, num |-> n, den |-> 1]

Abs(n) == IF n < 0 THEN -n ELSE n

RECURSIVE GCD(_, _)
GCD(a, b) == IF b = 0 THEN a ELSE GCD(b, a % b)

\* the rational n/d (d > 0) in lowest terms
Frac(n, d) ==
    LET g == GCD(Abs(n), d)
    IN  IF n = 0 THEN [null |-> FALSE, num |-> 0, den |-> 1]
        ELSE [null |-> FALSE, num |-> n \div g, den |-> d \div g]

FracAdd(a, b) == Frac(a.num * b.den + b.num * a.den, a.den * b.den)
FracSub(a, b) == Frac(a.num * b.den - b.num * a.den, a.den * b.den)
FracMulInt(a, k) == Frac(a.num * k, a.den)
FracDivInt(a, k) == Frac(a.num, a.den * k)

\* ------------------------------------------------------------- group keys
\* group_by is a column name (a str) or a list of column names
ByCountry == [list |-> FALSE, cols |-> <<"country">>]
ByCountryVariant == [list |-> TRUE, cols |-> <<"country", "variant">>]
GroupBys == {ByCountry, ByCountryVariant}

Columns == {"country", "variant", "date", "total", "notes"}

\* the key of a row under group_by, as the tuple groupby yields for it
KeyOf(row, gb) == [i \in 1..Len(gb.cols) |-> row[gb.cols[i]]]

\* groupby's default dropna=True leaves out rows with a null key component
HasNullKey(row, gb) == \E i \in 1..Len(gb.cols) : row[gb.cols[i]] = NullKey

\* sort order of the key strings (groupby's default sort=True)
SortedKeys == <<"Delta", "France", "Germany">>
Rank(k) == CHOOSE i \in 1..Len(SortedKeys) : SortedKeys[i] = k

RECURSIVE KeyLess(_, _, _)
KeyLess(a, b, i) ==
    IF i > Len(a) THEN FALSE
    ELSE IF Rank(a[i]) # Rank(b[i]) THEN Rank(a[i]) < Rank(b[i])
    ELSE KeyLess(a, b, i + 1)

\* the group names in the order the groupby iterates them
RECURSIVE SortKeys(_)
SortKeys(S) ==
    IF S = {} THEN <<>>
    ELSE LET m == CHOOSE a \in S : \A b \in S \ {a} : KeyLess(a, b, 1)
         IN  <<m>> \o SortKeys(S \ {m})

GroupNames(df, gb) ==
    SortKeys({KeyOf(df[i], gb) : i \in {j \in 1..Len(df) : ~HasNullKey(df[j], gb)}})

\* the rows of one group, in table order
GroupRows(df, gb, name) ==
    SelectSeq(df, LAMBDA r : ~HasNullKey(r, gb) /\ KeyOf(r, gb) = name)

\* -------------------------------------------------- date-axis regularizer
ToDatetime(v) == IF v \in Dates THEN v ELSE NaT

CoerceDates(df) ==
    [i \in 1..Len(df) |-> [df[i] EXCEPT !.date = ToDatetime(df[i].date)]]

ValidDates(group) == {group[i].date : i \in 1..Len(group)} \ {NaT}

\* Series.min / Series.max skip NaT and give NaT when nothing is left
MinDate(group) ==
    IF ValidDates(group) = {} THEN NaT
    ELSE CHOOSE d \in ValidDates(group) : \A e \in ValidDates(group) : d <= e

MaxDateOf(group) ==
    IF ValidDates(group) = {} THEN NaT
    ELSE CHOOSE d \in ValidDates(group) : \A e \in ValidDates(group) : d >= e

\* pd.date_range raises ValueError when start or end is NaT
DateRangeRaises(start, end) == start = NaT \/ end = NaT

RECURSIVE DateRange(_, _)
DateRange(start, end) ==
    IF start > end THEN <<>> ELSE <<start>> \o DateRange(start + 1, end)

\* the row a left join gives a left key that has no match on the right
Placeholder(d) ==
    [country |-> NullKey, variant |-> NullKey, date |-> d,
     total |-> NaN, notes |-> NoNote]

\* pd.merge(date_df, group, on=date_col, how='left')
RECURSIVE MergeLeft(_, _)
MergeLeft(dates, group) ==
    IF dates = <<>> THEN <<>>
    ELSE LET d == Head(dates)
             hits == SelectSeq(group, LAMBDA r : r.date = d)
         IN  (IF hits = <<>> THEN <<Placeholder(d)>> ELSE hits)
             \o MergeLeft(Tail(dates), group)

\* variant of AssignKeys: every key column gets the first component of name
AssignKeysFirst(row, gb, name, i) ==
    [c \in DOMAIN row |->
        IF \E k \in 1..Len(gb.cols) : gb.cols[k] = c THEN name[1] ELSE row[c]]

\* the key columns of a merged row are set from the group's name: column i
\* of a list group_by gets name[i], a str group_by gets the scalar name
\* (held here as a tuple of one component)
RECURSIVE AssignKeys(_, _, _, _)
AssignKeys(row, gb, name, i) ==
    IF ~gb.list THEN [row EXCEPT ![gb.cols[1]] = name[1]]
    ELSE IF i > Len(gb.cols) THEN row
    ELSE AssignKeys([row EXCEPT ![gb.cols[i]] = name[i]], gb, name, i + 1)

FillGroup(df, gb, name) ==
    LET group == GroupRows(df, gb, name)
        merged == MergeLeft(DateRange(MinDate(group), MaxDateOf(group)), group)
    IN  [i \in 1..Len(merged) |-> AssignKeys(merged[i], gb, name, 1)]

GroupRaises(df, gb, name) ==
    LET group == GroupRows(df, gb, name)
    IN  DateRangeRaises(MinDate(group), MaxDateOf(group))

\* filled_dfs after the loop over names[k..]: each merged frame with its name
RECURSIVE FilledDfs(_, _, _, _)
FilledDfs(df, gb, names, k) ==
    IF k > Len(names) THEN <<>>
    ELSE LET frame == [name |-> names[k], merged |-> FillGroup(df, gb, names[k])]
         IN  <<frame>> \o FilledDfs(df, gb, names, k + 1)

RECURSIVE Concat(_)
Concat(frames) ==
    IF frames = <<>> THEN <<>>
    ELSE Head(frames).merged \o Concat(Tail(frames))

\* for every row of the concatenated frame, the group it was built for
RECURSIVE ConcatNames(_)
ConcatNames(frames) ==
    IF frames = <<>> THEN <<>>
    ELSE [i \in 1..Len(Head(frames).merged) |-> Head(frames).name]
         \o ConcatNames(Tail(frames))

\* the outcome of fill_missing_dates_in_df_of_every_country
FillRaises(df, gb) ==
    LET c == CoerceDates(df)
        names == GroupNames(c, gb)
    IN  \/ \E k \in 1..Len(names) : GroupRaises(c, gb, names[k])
        \/ names = <<>>                 \* pd.concat([]) raises ValueError

FillMissingDates(df, gb) ==
    LET c == CoerceDates(df)
    IN  FilledDfs(c, gb, GroupNames(c, gb), 1)

\* ------------------------------------------------------- gap interpolator
\* the ascending sequence of the members of a set of row positions
RECURSIVE Ascending(_)
Ascending(S) ==
    IF S = {} THEN <<>>
    ELSE LET m == CHOOSE a \in S : \A b \in S : a <= b
         IN  <<m>> \o Ascending(S \ {m})

\* variant of NpInterp: the first and last segments are continued along their
\* slope beyond the end points
NpInterpSlope(x, xp, fp) ==
    IF Len(xp) = 1 THEN fp[1]
    ELSE LET j == IF x <= xp[1] THEN 1
                  ELSE IF x >= xp[Len(xp)] THEN Len(xp) - 1
                  ELSE CHOOSE k \in 1..(Len(xp) - 1) : xp[k] <= x /\ x < xp[k + 1]
             slope == FracDivInt(FracSub(fp[j + 1], fp[j]), xp[j + 1] - xp[j])
         IN  FracAdd(FracMulInt(slope, x - xp[j]), fp[j])

\* np.interp(x, xp, fp): piecewise linear through the points (xp[j], fp[j]),
\* constant fp[1] left of xp[1] and fp[Len] right of xp[Len]
NpInterp(x, xp, fp) ==
    IF x <= xp[1] THEN fp[1]
    ELSE IF x >= xp[Len(xp)] THEN fp[Len(xp)]
    ELSE LET j == CHOOSE k \in 1..(Len(xp) - 1) : xp[k] <= x /\ x < xp[k + 1]
             slope == FracDivInt(FracSub(fp[j + 1], fp[j]), xp[j + 1] - xp[j])
         IN  FracAdd(FracMulInt(slope, x - xp[j]), fp[j])

\* variant of SeriesInterpolate: limit_direction='forward', the NaNs before
\* the first non-null value are left
SeriesInterpolateForward(x) ==
    LET valid == {i \in 1..Len(x) : ~x[i].null}
        xp == Ascending(valid)
        fp == [j \in 1..Len(xp) |-> x[xp[j]]]
    IN  IF valid = {} THEN x
        ELSE [i \in 1..Len(x) |->
                IF x[i].null /\ i > xp[1] THEN NpInterp(i, xp, fp) ELSE x[i]]

\* variant of SeriesInterpolate: limit=1, only a NaN next to a non-null value
\* is filled
SeriesInterpolateLimit(x) ==
    LET valid == {i \in 1..Len(x) : ~x[i].null}
        xp == Ascending(valid)
        fp == [j \in 1..Len(xp) |-> x[xp[j]]]
    IN  IF valid = {} THEN x
        ELSE [i \in 1..Len(x) |->
                IF x[i].null /\ (i - 1 \in valid \/ i + 1 \in valid)
                THEN NpInterp(i, xp, fp) ELSE x[i]]

\* x.interpolate(method='linear', limit_direction='both') on one group's
\* column: the axis is the position in the series, every NaN is filled
SeriesInterpolate(x) ==
    LET valid == {i \in 1..Len(x) : ~x[i].null}
        xp == Ascending(valid)
        fp == [j \in 1..Len(xp) |-> x[xp[j]]]
    IN  IF valid = {} THEN x
        ELSE [i \in 1..Len(x) |-> IF x[i].null THEN NpInterp(i, xp, fp) ELSE x[i]]

\* the positions of the rows of df that are in the group of row i
Members(df, gb, i) ==
    {j \in 1..Len(df) : ~HasNullKey(df[j], gb) /\ KeyOf(df[j], gb) = KeyOf(df[i], gb)}

\* variant of GroupbyTransform: the date of the row, not its position, is
\* the axis of the interpolation (method='time' on a date index)
GroupbyTransformByDate(df, col, gb) ==
    [i \in 1..Len(df) |->
        IF HasNullKey(df[i], gb) THEN NaN
        ELSE LET known == {j \in Members(df, gb, i) : ~df[j][col].null}
                 before == {j \in known : j < i}
                 after == {j \in known : j > i}
                 p == CHOOSE j \in before : \A k \in before : k <= j
                 q == CHOOSE j \in after : \A k \in after : j <= k
                 a == df[p][col]
                 c == df[q][col]
                 lo == df[p].date
                 hi == df[q].date
             IN  IF ~df[i][col].null \/ known = {} THEN df[i][col]
                 ELSE IF before = {} THEN c
                 ELSE IF after = {} THEN a
                 ELSE IF hi <= lo \/ df[i].date <= lo THEN a
                 ELSE IF df[i].date >= hi THEN c
                 ELSE FracAdd(a, FracDivInt(FracMulInt(FracSub(c, a), df[i].date - lo),
                                            hi - lo))]

\* df.groupby(group_by)[col].transform(f): f applied to every group's
\* column, the results put back at the rows' positions; a row with a null
\* key is in no group and gets NaN
GroupbyTransform(df, col, gb) ==
    [i \in 1..Len(df) |->
        IF HasNullKey(df[i], gb) THEN NaN
        ELSE LET pos == Ascending(Members(df, gb, i))
                 series == [k \in 1..Len(pos) |-> df[pos[k]][col]]
                 at == CHOOSE k \in 1..Len(pos) : pos[k] = i
             IN  SeriesInterpolate(series)[at]]

SetColumn(df, col, values) ==
    [i \in 1..Len(df) |-> [df[i] EXCEPT ![col] = values[i]]]

\* interpolate_columns: the loop over cols_to_interpolate[k..]
RECURSIVE InterpolateColumns(_, _, _, _)
InterpolateColumns(df, cols, gb, k) ==
    IF k > Len(cols) THEN df
    ELSE IF cols[k] \in Columns
         THEN InterpolateColumns(SetColumn(df, cols[k], GroupbyTransform(df, cols[k], gb)),
                                 cols, gb, k + 1)
         ELSE InterpolateColumns(df, cols, gb, k + 1)

\* ------------------------------------------------------------ the program
VARIABLES
    df,         \* the table being processed
    pc,         \* "loaded", "filled", "interpolated" or "raised"
    input,      \* the table as loaded
    group_by,   \* the group_by of the last call
    names,      \* per row of a regularized df: the name of the group it was built for
    prev,       \* the table before interpolate_columns was first applied
    passes,     \* how many times interpolate_columns has been applied
    error       \* the exception that ended the run, or "none"

vars == <<df, pc, input, group_by, names, prev, passes, error>>

NoGroupBy == [list |-> FALSE, cols |-> <<>>]

\* the numeric cells a loader can produce
Cells == {NaN} \cup {Num(v) : v \in Observed}

\* rows of any kind: a sub-key may be missing, the date may be unparseable
RawRows ==
    [country : Countries, variant : Variants \cup {NullKey},
     date : Dates \cup {NaT}, total : {NaN, Num(10)}, notes : {NoNote}]

\* notes holds the line of the file the row was read from
Numbered(t) == [i \in 1..Len(t) |-> [t[i] EXCEPT !.notes = i]]

\* rows with every key present and a parsed date at an end of the calendar
WellFormedRows ==
    [country : Countries, variant : Variants,
     date : {1, MaxDate}, total : Cells, notes : {NoNote}]

Tables ==
    UNION ({[1..n -> RawRows] : n \in 1..MaxRows}
           \cup {[1..n -> WellFormedRows] : n \in 1..MaxLen})

ColumnLists == {<<"total">>, <<"positive_rate", "total">>}

Init ==
    /\ df \in {Numbered(t) : t \in Tables}
    /\ input = df
    /\ pc = "loaded"
    /\ group_by = NoGroupBy
    /\ names = <<>>
    /\ prev = <<>>
    /\ passes = 0
    /\ error = "none"

fill_missing_dates_in_df_of_every_country(gb) ==
    /\ pc = "loaded"
    /\ group_by' = gb
    /\ IF FillRaises(df, gb)
       THEN /\ pc' = "raised"
            /\ error' = "ValueError"
            /\ df' = CoerceDates(df)
            /\ names' = names
       ELSE /\ pc' = "filled"
            /\ error' = error
            /\ df' = Concat(FillMissingDates(df, gb))
            /\ names' = ConcatNames(FillMissingDates(df, gb))
    /\ UNCHANGED <<input, prev, passes>>

interpolate_columns(cols, gb) ==
    /\ pc \in {"loaded", "filled", "interpolated"}
    /\ passes < MaxPasses
    /\ pc # "loaded" => gb = group_by
    /\ df' = InterpolateColumns(df, cols, gb, 1)
    /\ pc' = "interpolated"
    /\ group_by' = gb
    /\ prev' = IF pc = "interpolated" THEN prev ELSE df
    /\ passes' = passes + 1
    /\ UNCHANGED <<input, names, error>>

Next ==
    \/ \E gb \in GroupBys : fill_missing_dates_in_df_of_every_country(gb)
    \/ \E cols \in ColumnLists, gb \in GroupBys : interpolate_columns(cols, gb)

Spec == Init /\ [][Next]_vars

\* ----------------------------------------------------------- vocabulary
\* a regularizer call has returned or raised
FillReturned == pc = "filled"
FillEnded == pc \in {"filled", "raised"}

\* the groups of a table: the keys of its rows that have no null component
GroupsOf(t, gb) == {KeyOf(t[i], gb) : i \in {j \in 1..Len(t) : ~HasNullKey(t[j], gb)}}

ObservedDates(name) == ValidDates(GroupRows(input, group_by, name))

Least(S) == CHOOSE d \in S : \A e \in S : d <= e
Greatest(S) == CHOOSE d \in S : \A e \in S : d >= e

\* how many rows of the output group carry the date d
Count(name, d) ==
    Cardinality({i \in 1..Len(df) : /\ ~HasNullKey(df[i], group_by)
                                    /\ KeyOf(df[i], group_by) = name
                                    /\ df[i].date = d})

SameButDate(r, q) ==
    /\ r.country = q.country
    /\ r.variant = q.variant
    /\ r.total = q.total
    /\ r.notes = q.notes

\* ---------------------------------------------- claims: the regularizer
\* C1 (Completeness): in the regularizer's output every group holds exactly
\* the days from its least to its greatest observed date, each day once,
\* also when the input group has several rows of one date.
C1_Completeness ==
    FillReturned =>
        \A name \in GroupsOf(df, group_by) :
            /\ ObservedDates(name) # {}
            /\ \A d \in Dates \cup {NaT} :
                  Count(name, d) =
                    IF /\ d # NaT
                       /\ Least(ObservedDates(name)) <= d
                       /\ d <= Greatest(ObservedDates(name))
                    THEN 1 ELSE 0

\* C2 (no row lost): every input row is in the regularizer's output with its
\* non-date fields unchanged, a row with the unknown date included.
C2_NoRowLost ==
    FillReturned =>
        \A i \in 1..Len(input) : \E j \in 1..Len(df) : SameButDate(input[i], df[j])

\* a group of the input all of whose dates are the unknown sentinel
SentinelGroups == {name \in GroupsOf(input, group_by) : ObservedDates(name) = {}}

\* C3: a group with no valid date does not make the regularizer fail; the
\* call returns and the other groups are regularized.
C3_SentinelGroupTotal ==
    (FillEnded /\ SentinelGroups # {}) =>
        /\ pc = "filled"
        /\ \A name \in GroupsOf(input, group_by) \ SentinelGroups :
              \A d \in Least(ObservedDates(name))..Greatest(ObservedDates(name)) :
                  Count(name, d) >= 1

\* C8 (Key preservation): every output row of the regularizer, copied or
\* placeholder, carries in each group-key column the key of the group it was
\* generated for, for a str key and for a list of key columns.
C8_KeyPreservation ==
    FillReturned =>
        /\ Len(names) = Len(df)
        /\ \A i \in 1..Len(df) :
              \A c \in 1..Len(group_by.cols) : df[i][group_by.cols[c]] = names[i][c]

\* a placeholder row under a composite key whose components differ
C8_Witness ==
    /\ FillReturned
    /\ group_by = ByCountryVariant
    /\ \E i \in 1..Len(df) : df[i].notes = NoNote /\ df[i].country = "Germany"

\* C9: with a composite key and a row whose sub-key is missing, the
\* regularizer fails (with a malformed-group-key error; any exception is
\* accepted here) instead of returning a table without that row.
C9_MalformedKeyRejected ==
    (/\ FillEnded
     /\ group_by.list
     /\ \E i \in 1..Len(input) : HasNullKey(input[i], group_by))
        => pc = "raised"

\* --------------------------------------------- claims: the interpolator
Interpolated == pc = "interpolated"

InGroup(i) == ~HasNullKey(prev[i], group_by)

\* the rows of the group of row i, before the call
Group(i) == Members(prev, group_by, i)
Known(i) == {j \in Group(i) : ~prev[j].total.null}

\* the position of row j within the group of row i, in row order
Pos(i, j) == Cardinality({k \in Group(i) : k <= j})

\* C4 (Interpolation boundedness): after interpolate_columns a null is left
\* in a group's column exactly when the column was all null for the group.
C4_Boundedness ==
    Interpolated =>
        \A i \in 1..Len(df) :
            InGroup(i) => (df[i].total.null <=> Known(i) = {})

\* an all-null group column next to a group column that had a gap filled
C4_Witness ==
    /\ Interpolated
    /\ \E i, j \in 1..Len(df) :
          /\ InGroup(i) /\ InGroup(j)
          /\ Known(i) = {} /\ df[i].total.null
          /\ prev[j].total.null /\ ~df[j].total.null

\* C5 (Linearity): a null between nearest non-null neighbours a at group
\* position p and c at group position q is filled at position i with
\* a + (c - a) * (i - p) / (q - p); the axis is the row position, not the date.
C5_Linearity ==
    Interpolated =>
        \A i \in 1..Len(df) :
            (/\ InGroup(i)
             /\ prev[i].total.null
             /\ \E j \in Known(i) : j < i
             /\ \E j \in Known(i) : j > i)
            => LET p == Greatest({j \in Known(i) : j < i})
                   q == Least({j \in Known(i) : j > i})
                   a == prev[p].total.num
                   c == prev[q].total.num
                   n == Pos(i, q) - Pos(i, p)
               IN  df[i].total = Frac(a * n + (c - a) * (Pos(i, i) - Pos(i, p)), n)

Totals(t) == [i \in 1..Len(t) |-> t[i].total]

France(d, v) ==
    [country |-> "France", variant |-> "Delta", date |-> d, total |-> v, notes |-> NoNote]

\* C5 (scenario): France observed at day 1 (10) and day 4 (40) gives four
\* rows with the values 10, 20, 30, 40 after regularization and interpolation.
C5_Scenario ==
    (/\ Interpolated
     /\ names # <<>>
     /\ input = Numbered(<<France(1, Num(10)), France(4, Num(40))>>))
        => Totals(df) = <<Num(10), Num(20), Num(30), Num(40)>>

C5_LinearityAndScenario == C5_Linearity /\ C5_Scenario

\* an unregularized group a, null, c whose rows are not one day apart
C5_Witness ==
    /\ Interpolated
    /\ names = <<>>
    /\ Len(df) = 3
    /\ \A i \in 1..3 : df[i].country = "France"
    /\ prev[1].date = 1 /\ prev[2].date = 1 /\ prev[3].date = MaxDate
    /\ Totals(prev) = <<Num(10), NaN, Num(40)>>
    /\ Totals(df) = <<Num(10), Num(25), Num(40)>>

\* C6 (Boundary extrapolation): the positions before a group column's first
\* non-null value v get v and the positions after its last non-null value w
\* get w.
C6_BoundaryExtrapolation ==
    Interpolated =>
        \A i \in 1..Len(df) :
            (InGroup(i) /\ Known(i) # {}) =>
                /\ i < Least(Known(i)) => df[i].total = prev[Least(Known(i))].total
                /\ i > Greatest(Known(i)) => df[i].total = prev[Greatest(Known(i))].total

\* a leading gap before two different values, which a slope would undershoot
C6_Witness ==
    /\ Interpolated
    /\ \E i \in 1..Len(df) :
          /\ InGroup(i)
          /\ Cardinality(Known(i)) = 2
          /\ i < Least(Known(i))
          /\ prev[Least(Known(i))].total # prev[Greatest(Known(i))].total
          /\ df[i].total = prev[Least(Known(i))].total

\* C7 (Idempotence): applying interpolate_columns to its own result changes
\* nothing.
C7_Idempotence == [][Interpolated => df' = df]_vars

\* a second application to a table the first application had filled
C7_Witness ==
    /\ Interpolated
    /\ passes = 2
    /\ \E i \in 1..Len(df) : prev[i].total.null /\ ~df[i].total.null
    /\ \E i \in 1..Len(df) : df[i].total.null

\* C10 (frame): interpolate_columns keeps the number and order of rows, every
\* non-null value of the listed column and every cell of every other column.
C10_Frame ==
    Interpolated =>
        /\ Len(df) = Len(prev)
        /\ \A i \in 1..Len(df) :
              /\ df[i].country = prev[i].country
              /\ df[i].variant = prev[i].variant
              /\ df[i].date = prev[i].date
              /\ df[i].notes = prev[i].notes
              /\ ~prev[i].total.null => df[i].total = prev[i].total

====
